---- MODULE Spec2Model ----
(***************************************************************************)
(* Model of the DPU process-control backend:                               *)
(*   - DpuRank / Dpu  (source/Plugins/Process/Dpu/DpuRank.cpp)             *)
(*   - UnwindDPU      (UnwindDPU.cpp / UnwindDPU.h)                        *)
(*                                                                         *)
(* Six state machines share the module:                                    *)
(*   Spec       one Dpu driven by a single control thread; every public    *)
(*              method is one action, the vendor library is the            *)
(*              environment: each call may fail and the calls that take    *)
(*              the context buffer may rewrite it.                         *)
(*   SpecState  Dpu::GetThreadState applied to every context.              *)
(*   SpecRank   one DpuRank, its Dpus and several concurrent callers; the  *)
(*              unit of interleaving is the mutex operation and the begin  *)
(*              and the end of a link transaction.                         *)
(*   SpecUnwind UnwindDPU over a thread's registers and a memory image.    *)
(*   SpecBoot   one Dpu and its unit: LoadElf, Boot and the calls that     *)
(*              read or set the logically-running flag.                    *)
(*   SpecCache  UnwindDPU over a thread whose registers and memory change  *)
(*              between the calls.                                         *)
(*                                                                         *)
(* Numbers wider than 31 bits are kept as little-endian tuples of 16-bit   *)
(* limbs (a 64-bit word is <<l0, l1, l2, l3>>), so the arithmetic keeps    *)
(* the width the C++ types have.                                           *)
(***************************************************************************)
EXTENDS Integers, Sequences, FiniteSets, TLC

\* ------------------------------------------------------------------ bounds
\* Hardware threads per unit (the description's nr_of_threads).
NrThreads == 2
\* Running polls Boot may see before the unit leaves the running state.
MaxPolls == 1

Threads == 0 .. (NrThreads - 1)
\* Values a work register may hold.
RegVals == {0, 1}

\* The scheduling byte of a thread that is not scheduled.
Unscheduled == 255
\* A scheduling byte is a position in the scheduling list or Unscheduled; the
\* code only ever compares it with Unscheduled.
SchedBytes == {0, Unscheduled}

\* An optional value is a sequence of no or of one element.
None == <<>>
Some(x) == <<x>>
\* Marks the argument or result a call does not have.
NoArg == "none"

\* ------------------------------------------------------- execution context
\* struct _dpu_context_t as this code uses it: scheduling (a byte per
\* thread), nr_of_running_threads, the three fault flags with their thread
\* indexes, registers and pcs.  registers[t] is work register r0 of thread t
\* (registers[r0_dpu] is registers[0]); the zero and carry flags are only
\* handed out by accessors and are not modelled.
\* What the vendor library may leave in the context buffer it is handed
\* (dpu_initialize_fault_process_for_dpu, dpu_extract_context_for_dpu,
\* dpu_execute_thread_step_in_fault_for_dpu) or may have built for a core
\* file.  The operations of Spec never read the fault thread indexes or the
\* pcs, and of the registers they read registers[0] only: the environment of
\* Spec reports the indexes and the pcs as 0, one value in all registers
\* (only a store through the accessor makes them differ) and as the
\* running-thread count the number of scheduled threads.  SpecState ranges
\* over StateContexts.
Scheduled(s) == {t \in Threads : s[t] # Unscheduled}

HwContexts ==
  {[scheduling |-> s, nr_of_running_threads |-> Cardinality(Scheduled(s)),
    bkp_fault |-> b, dma_fault |-> dm, mem_fault |-> m,
    bkp_fault_thread_index |-> 0, dma_fault_thread_index |-> 0,
    mem_fault_thread_index |-> 0,
    registers |-> [t \in Threads |-> r], pcs |-> [t \in Threads |-> 0]] :
     s \in [Threads -> SchedBytes],
     b \in BOOLEAN, dm \in BOOLEAN, m \in BOOLEAN, r \in RegVals}

\* ------------------------------------------------------------- instructions
\* dpuinstruction_t is 64 bits wide.
BreakpointInstruction == <<0, 8192, 32355, 0>>  \* 0x00007e6320000000
\* First instruction words a loaded program may have.
ProgramInstructions == {<<1, 0, 0, 0>>, <<2, 0, 0, 0>>}
Instructions == ProgramInstructions \cup {BreakpointInstruction}

\* lldb::StateType values this code returns.
eStateInvalid == "eStateInvalid"
eStateStopped == "eStateStopped"
eStateRunning == "eStateRunning"
eStateExited == "eStateExited"
eStateCrashed == "eStateCrashed"

VARIABLES
  dpu,        \* one Dpu object: m_context and the two flags
  unit,       \* the unit behind it: instruction word 0, an attached context
  last        \* the last call on the Dpu: its arguments, its result, its
              \* trace, what it pushed to or handed to the hardware, whether
              \* its vendor calls all succeeded (hw_ok), whether bkp_fault
              \* was set when it was made (bkp_pending), whether its push
              \* of the context succeeded (ok_restore), of a PollStatus
              \* what dpu_poll_dpu reported (hw_running, hw_fault), of a Boot the
              \* words it wrote, its polls' results, the Dpu and the unit
              \* it was called on (before) and what the vendor library
              \* did during it (env)

VARIABLES
  rank,       \* one DpuRank: m_rank, m_desc, nr_dpus, m_dpus, m_lock (0 or
              \* the caller holding it), and the number of Open calls made
  callers     \* per concurrent caller: what is left of the operation it is
              \* in (pc) and the link transaction it has in progress

VARIABLES
  m_thread,   \* the thread an UnwindDPU belongs to: r22, pc, its memory and
              \* the register context GetRegisterContext() returns
  unwind      \* one UnwindDPU: m_frames, the walk's position, the last call
              \* (op, idx and its results ret, found, frame, reg_ctx) and
              \* the number of walks begun since the last DoClear (walks)

dpuVars == <<dpu, unit, last>>
rankVars == <<rank, callers>>
unwindVars == <<m_thread, unwind>>
vars == <<dpu, unit, last, rank, callers, m_thread, unwind>>

\* ------------------------------------------------------------ Dpu: helpers
\* A call's trace lists, in order, the mutex operations ("lock", "unlock") and
\* the link transactions the call performs.
Locked(tr) == <<"lock">> \o tr \o <<"unlock">>

LinkCmds ==
  {"initialize_fault_process", "extract_context", "restore_context",
   "finalize_fault_process", "execute_thread_step_in_fault", "poll_dpu",
   "copy_to_iram", "copy_from_iram", "copy_to_wram", "copy_from_wram",
   "copy_to_mram", "copy_from_mram", "custom_preexecution", "launch_thread",
   "load_individual", "get_rank_of_type", "reset_rank"}

\* The link transactions of a trace.
Cmds(tr) == SelectSeq(tr, LAMBDA e : e \in LinkCmds)

\* What StopThreadsUnlock hands to the hardware: the fields it resets.
Handed(c) ==
  [scheduling |-> c.scheduling,
   nr_of_running_threads |-> c.nr_of_running_threads,
   bkp_fault |-> c.bkp_fault, dma_fault |-> c.dma_fault,
   mem_fault |-> c.mem_fault]

\* StopThreadsUnlock's early return: the unit is not logically running and
\* the stop is not forced.
NothingToStopAlways(d, force) == ~force

NothingToStop(d, force) == ~d.dpu_is_running /\ ~force

\* What StopThreadsUnlock stores into the context before the vendor calls.
ResetContextKeepsScheduling(c) ==
  [c EXCEPT !.nr_of_running_threads = 0, !.bkp_fault = FALSE,
            !.dma_fault = FALSE, !.mem_fault = FALSE]

ResetContext(c) ==
  [c EXCEPT !.scheduling = [t \in Threads |-> Unscheduled],
            !.nr_of_running_threads = 0,
            !.bkp_fault = FALSE,
            !.dma_fault = FALSE,
            !.mem_fault = FALSE]

\* Dpu::StopThreadsUnlock(force).  ok_init, ok_extract: whether the two
\* vendor calls succeed; hwctx: what they leave in the context buffer.
StopThreadsUnlock(d, force, ok_init, ok_extract, hwctx) ==
  IF NothingToStop(d, force)
  THEN [d |-> d, ret |-> TRUE, trace |-> <<>>, handed |-> None,
        hw_ok |-> TRUE]
  ELSE LET reset == ResetContext(d.m_context)
       IN [d |-> [d EXCEPT !.dpu_is_running = FALSE,
                           !.m_context = hwctx],
           ret |-> ok_init /\ ok_extract,
           trace |-> <<"initialize_fault_process", "extract_context">>,
           handed |-> Some(Handed(reset)),
           hw_ok |-> ok_init /\ ok_extract]

\* SetExitStatus: *exit_status = context->registers[r0_dpu].
SetExitStatus(c) == c.registers[0]

\* Dpu::PollStatus.  hw_running, hw_fault: what dpu_poll_dpu stores through
\* its two out-parameters (its status is not looked at).
PollStatusExitedFirst(d, hw_running, hw_fault, ok_init, ok_extract, hwctx) ==
  IF ~d.dpu_is_running
  THEN [d |-> d, ret |-> eStateInvalid, trace |-> Locked(<<>>),
        exit_status |-> None, handed |-> None, hw_ok |-> TRUE]
  ELSE LET polled == [d EXCEPT !.dpu_is_running = hw_running]
           result_state == IF ~hw_running THEN eStateExited ELSE eStateStopped
           stop == StopThreadsUnlock(polled, TRUE, ok_init, ok_extract, hwctx)
       IN IF ~hw_fault /\ hw_running
          THEN [d |-> polled, ret |-> eStateRunning,
                trace |-> Locked(<<"poll_dpu">>),
                exit_status |-> None, handed |-> None, hw_ok |-> TRUE]
          ELSE IF ~stop.ret
          THEN [d |-> stop.d, ret |-> eStateCrashed,
                trace |-> Locked(<<"poll_dpu">> \o stop.trace),
                exit_status |-> None, handed |-> stop.handed,
                hw_ok |-> stop.hw_ok]
          ELSE [d |-> stop.d, ret |-> result_state,
                trace |-> Locked(<<"poll_dpu">> \o stop.trace),
                exit_status |-> Some(SetExitStatus(stop.d.m_context)),
                handed |-> stop.handed, hw_ok |-> stop.hw_ok]

PollStatus(d, hw_running, hw_fault, ok_init, ok_extract, hwctx) ==
  IF ~d.dpu_is_running
  THEN [d |-> d, ret |-> eStateInvalid, trace |-> Locked(<<>>),
        exit_status |-> None, handed |-> None, hw_ok |-> TRUE]
  ELSE LET polled == [d EXCEPT !.dpu_is_running = hw_running]
           result_state == IF hw_fault THEN eStateStopped ELSE eStateExited
           stop == StopThreadsUnlock(polled, TRUE, ok_init, ok_extract, hwctx)
       IN IF ~hw_fault /\ hw_running
          THEN [d |-> polled, ret |-> eStateRunning,
                trace |-> Locked(<<"poll_dpu">>),
                exit_status |-> None, handed |-> None, hw_ok |-> TRUE]
          ELSE IF ~stop.ret
          THEN [d |-> stop.d, ret |-> eStateCrashed,
                trace |-> Locked(<<"poll_dpu">> \o stop.trace),
                exit_status |-> None, handed |-> stop.handed,
                hw_ok |-> stop.hw_ok]
          ELSE [d |-> stop.d, ret |-> result_state,
                trace |-> Locked(<<"poll_dpu">> \o stop.trace),
                exit_status |-> Some(SetExitStatus(stop.d.m_context)),
                handed |-> stop.handed, hw_ok |-> stop.hw_ok]

\* Dpu::StopThreads: StopThreadsUnlock() under the rank lock.  The call passes
\* no argument; the parameter's default (DpuRank.h) is false.
StopThreads(d, ok_init, ok_extract, hwctx) ==
  LET stop == StopThreadsUnlock(d, FALSE, ok_init, ok_extract, hwctx)
  IN [stop EXCEPT !.trace = Locked(stop.trace)]

\* IsContextReadyForResumeOrStep: clears bkp_fault, then tests the others.
KeepBkpFault(c) == c

ClearBkpFault(c) == [c EXCEPT !.bkp_fault = FALSE]

IsContextReadyIgnoringMemFault(c) == ~c.dma_fault

IsContextReadyForResumeOrStep(c) == ~(c.dma_fault \/ c.mem_fault)

\* The vendor calls of ResumeThreads, in order.
ResumeCmdsFinalizeFirst(dirty) ==
  <<"finalize_fault_process">>
    \o (IF dirty THEN <<"restore_context">> ELSE <<>>)

ResumeCmds(dirty) ==
  (IF dirty THEN <<"restore_context">> ELSE <<>>)
    \o <<"finalize_fault_process">>

\* StepThread's test of the scheduling list.
IsScheduledAnyThread(c, thread_index) ==
  \E t \in Threads : c.scheduling[t] # Unscheduled

IsScheduled(c, thread_index) == c.scheduling[thread_index] # Unscheduled

\* registers_has_been_modified after the push of ResumeThreads and of
\* StepThread: cleared when it was set, whatever the push returned.
DirtyAfterFailedPush(dirty, ok_restore) == dirty /\ ~ok_restore

DirtyAfterPush(dirty, ok_restore) == FALSE

\* The vendor calls of StepThread for a scheduled thread, in order.
StepCmdsExtractFirst(dirty) ==
  (IF dirty THEN <<"restore_context">> ELSE <<>>)
    \o <<"extract_context", "execute_thread_step_in_fault">>

StepCmds(dirty) ==
  (IF dirty THEN <<"restore_context">> ELSE <<>>)
    \o <<"execute_thread_step_in_fault", "extract_context">>

\* Dpu::ResumeThreads(allowed_polling).
ResumeThreads(d, allowed_polling, ok_restore, ok_finalize) ==
  LET c1 == ClearBkpFault(d.m_context)
      d1 == [d EXCEPT !.m_context = c1]
      dirty == d.registers_has_been_modified
  IN IF ~IsContextReadyForResumeOrStep(c1)
     THEN [d |-> d1, ret |-> FALSE, trace |-> Locked(<<>>), pushed |-> None,
           hw_ok |-> TRUE]
     ELSE [d |-> [d1 EXCEPT
                    !.registers_has_been_modified
                       = DirtyAfterPush(dirty, ok_restore),
                    !.dpu_is_running = IF allowed_polling THEN TRUE ELSE @],
           ret |-> (dirty => ok_restore) /\ ok_finalize,
           trace |-> Locked(ResumeCmds(dirty)),
           pushed |-> IF dirty THEN Some(c1.registers) ELSE None,
           hw_ok |-> (dirty => ok_restore) /\ ok_finalize]

\* Dpu::StepThread(thread_index, exit_status).  hwctx: what the step and the
\* extraction leave in the context buffer.
StepThread(d, thread_index, ok_restore, ok_step, ok_extract, hwctx) ==
  LET c1 == ClearBkpFault(d.m_context)
      d1 == [d EXCEPT !.m_context = c1]
      dirty == d.registers_has_been_modified
      ok == (dirty => ok_restore) /\ ok_step /\ ok_extract
  IN IF ~IsContextReadyForResumeOrStep(c1)
     THEN [d |-> d1, ret |-> eStateCrashed, trace |-> Locked(<<>>),
           pushed |-> None, exit_status |-> None, hw_ok |-> TRUE]
     ELSE IF ~IsScheduled(c1, thread_index)
     THEN [d |-> d1, ret |-> eStateStopped, trace |-> Locked(<<>>),
           pushed |-> None, exit_status |-> None, hw_ok |-> TRUE]
     ELSE [d |-> [d1 EXCEPT !.registers_has_been_modified
                               = DirtyAfterPush(dirty, ok_restore),
                            !.m_context = hwctx],
           ret |-> IF ~ok THEN eStateCrashed
                   ELSE IF hwctx.nr_of_running_threads = 0 THEN eStateExited
                   ELSE eStateStopped,
           trace |-> Locked(StepCmds(dirty)),
           pushed |-> IF dirty THEN Some(c1.registers) ELSE None,
           exit_status |-> IF ok /\ hwctx.nr_of_running_threads = 0
                           THEN Some(SetExitStatus(hwctx)) ELSE None,
           hw_ok |-> ok]

\* Dpu::ReadIRAM(0, &word, sizeof word): one locked dpu_copy_from_iram_for_dpu.
\* On failure the destination keeps what it held (garbage: the caller's
\* uninitialised variable).
ReadIRAM(u, ok, garbage) ==
  [ret |-> ok, value |-> IF ok THEN u.iram0 ELSE garbage,
   trace |-> Locked(<<"copy_from_iram">>)]

\* Dpu::WriteIRAM(0, &word, sizeof word): one locked dpu_copy_to_iram_for_dpu.
WriteIRAM(u, word, ok) ==
  [u |-> IF ok THEN [u EXCEPT !.iram0 = word] ELSE u, ret |-> ok,
   trace |-> Locked(<<"copy_to_iram">>)]

\* The other raw memory primitives: one locked link transaction each.
WriteWRAM == Locked(<<"copy_to_wram">>)
ReadWRAM == Locked(<<"copy_from_wram">>)
WriteMRAM == Locked(<<"copy_to_mram">>)
ReadMRAM == Locked(<<"copy_from_mram">>)

\* Dpu::LoadElf: dpu_load_individual, which on success puts the program's
\* first instruction into instruction memory and may attach the context of a
\* core file to the dpu structure (core: that context, or None).
LoadElf(u, ok, word, core) ==
  [u |-> IF ok THEN [u EXCEPT !.iram0 = word, !.debug_context = core] ELSE u,
   ret |-> ok, trace |-> <<"load_individual">>]

\* The npolls PollStatus calls of Boot's loop that return eStateRunning.
RunningPolls(npolls) ==
  [i \in 1 .. (3 * npolls) |->
     IF i % 3 = 1 THEN "lock" ELSE IF i % 3 = 2 THEN "poll_dpu" ELSE "unlock"]

\* Boot's core-file path: the context dpu_pop_debug_context took off the dpu
\* structure replaces m_context, and Boot returns true.
BootFromCoreKeepsContext(d, u) ==
  [d |-> d, u |-> [u EXCEPT !.debug_context = None], ret |-> TRUE,
   trace |-> <<>>, written |-> <<>>, polled |-> <<>>]

BootFromCore(d, u) ==
  [d |-> [d EXCEPT !.m_context = u.debug_context[1]],
   u |-> [u EXCEPT !.debug_context = None], ret |-> TRUE, trace |-> <<>>,
   written |-> <<>>, polled |-> <<>>]

\* The switch of Boot's loop: the PollStatus result that makes Boot write the
\* first instruction back and return true.
BootSucceedsUnlessCrashed(state) == state # eStateCrashed

BootSucceeds(state) == state = eStateStopped

\* The unit when Boot returns false: as the write of the breakpoint left it
\* (u); first_instruction is not written back.
UnitRestoredOnFailure(u, first_instruction) ==
  [u EXCEPT !.iram0 = first_instruction]

UnitOnFailure(u, first_instruction) == u

\* Dpu::Boot.  env holds what the vendor library does during the call: the
\* outcomes of the calls (ok_read, ok_write, ok_pre, ok_launch, ok_restore),
\* the number npolls of PollStatus calls that return Running and the inputs
\* of the one that returns another state (hw_running, hw_fault, ok_init,
\* ok_extract, hwctx).  first_instruction stays uninitialised (garbage) when
\* ReadIRAM fails.  written: the words handed to WriteIRAM, in order; polled:
\* the results of the PollStatus calls, in order.
Boot(d, u, env) ==
  IF u.debug_context # None
  THEN BootFromCore(d, u)
  ELSE LET rd == ReadIRAM(u, env.ok_read, env.garbage)
           first_instruction == rd.value
           wr == WriteIRAM(u, BreakpointInstruction, env.ok_write)
           started == [d EXCEPT !.dpu_is_running = TRUE]
           poll == PollStatus(started, env.hw_running, env.hw_fault,
                              env.ok_init, env.ok_extract, env.hwctx)
           back == WriteIRAM(wr.u, first_instruction, env.ok_restore)
           failed == UnitOnFailure(wr.u, first_instruction)
           polled == [i \in 1 .. env.npolls |-> eStateRunning]
                       \o <<poll.ret>>
           t1 == rd.trace \o wr.trace \o <<"custom_preexecution">>
           t2 == t1 \o <<"launch_thread">>
           t3 == t2 \o RunningPolls(env.npolls) \o poll.trace
       IN IF ~env.ok_pre
          THEN [d |-> d, u |-> failed, ret |-> FALSE, trace |-> t1,
                written |-> <<BreakpointInstruction>>, polled |-> <<>>]
          ELSE IF ~env.ok_launch
          THEN [d |-> d, u |-> failed, ret |-> FALSE, trace |-> t2,
                written |-> <<BreakpointInstruction>>, polled |-> <<>>]
          ELSE IF BootSucceeds(poll.ret)
          THEN [d |-> poll.d, u |-> back.u, ret |-> TRUE,
                trace |-> t3 \o back.trace,
                written |-> <<BreakpointInstruction, first_instruction>>,
                polled |-> polled]
          ELSE [d |-> poll.d, u |-> failed, ret |-> FALSE, trace |-> t3,
                written |-> <<BreakpointInstruction>>, polled |-> polled]

\* A store through the pointer Dpu::ThreadContextRegs(thread_index) returns.
ThreadContextRegs(d, thread_index, value) ==
  [d EXCEPT !.m_context.registers[thread_index] = value]

\* A store through the pointer Dpu::ThreadRegistersHasBeenModified() returns.
ThreadRegistersHasBeenModified(d, value) ==
  [d EXCEPT !.registers_has_been_modified = value]

\* ------------------------------------------------------------ Spec: one Dpu
\* Contexts a core file may carry.
CoreContexts ==
  {c \in HwContexts :
     /\ c.scheduling = [t \in Threads |-> IF t = 0 THEN 0 ELSE Unscheduled]
     /\ c.nr_of_running_threads = 1
     /\ ~c.dma_fault /\ ~c.mem_fault
     /\ c.registers = [t \in Threads |-> 1]}

\* Dpu::Dpu: m_context = dpu_alloc_dpu_context(...), whose content is the
\* vendor library's.  The constructor sets neither dpu_is_running nor
\* registers_has_been_modified (their declarations are in DpuRank.h): Spec
\* starts a Dpu with any value in them.
InitDpu(d) == d.m_context \in HwContexts

Dpus ==
  [m_context : HwContexts, dpu_is_running : BOOLEAN,
   registers_has_been_modified : BOOLEAN]

\* The unit holds some program and no core file's context.
InitUnit == [iram0 |-> <<1, 0, 0, 0>>, debug_context |-> None]

NoCall ==
  [op |-> NoArg, thread |-> 0, flag |-> FALSE, value |-> 0, ok |-> TRUE,
   state |-> NoArg, stop_reason |-> NoArg, description |-> None,
   trace |-> <<>>, pushed |-> None, handed |-> None, exit_status |-> None,
   hw_ok |-> TRUE, bkp_pending |-> FALSE, written |-> <<>>, polled |-> <<>>,
   before |-> None, env |-> None, hw_running |-> FALSE, hw_fault |-> FALSE,
   ok_restore |-> TRUE]

\* The outcomes of a group of vendor calls: all succeed, or one of them fails.
OkPairs == {<<TRUE, TRUE>>, <<FALSE, TRUE>>, <<TRUE, FALSE>>}
OkTriples ==
  {<<TRUE, TRUE, TRUE>>, <<FALSE, TRUE, TRUE>>, <<TRUE, FALSE, TRUE>>,
   <<TRUE, TRUE, FALSE>>}

\* A context the environment need not choose (the call does not reach the
\* vendor calls that write the buffer).
AnyContext == CHOOSE c \in HwContexts : TRUE

\* The contexts the environment chooses from when a call's vendor calls take
\* the context buffer (reached): any of them when the calls succeed; when one
\* fails, any of them or the buffer as it was handed over.
Reports(reached, ok, handed) ==
  IF ~reached THEN {AnyContext}
  ELSE IF ok THEN HwContexts
  ELSE HwContexts \cup {handed}

\* What the variables of the other state machines hold throughout.
IdleDpu == [m_context |-> AnyContext, dpu_is_running |-> FALSE,
            registers_has_been_modified |-> FALSE]
NoRank == [m_rank |-> FALSE, m_desc |-> None, nr_dpus |-> 0,
           m_dpus |-> <<>>, m_lock |-> 0, opens |-> 0]
NoCallers == <<>>
NoThread == [r22 |-> 0, pc |-> 0, memory |-> <<>>, reg_ctx |-> 0]
NoUnwind == [m_frames |-> <<>>, walking |-> FALSE, prev_frame |-> None,
             op |-> NoArg, idx |-> 0, ret |-> 0, found |-> FALSE,
             frame |-> None, reg_ctx |-> None, walks |-> 0]

Init ==
  /\ dpu \in {d \in Dpus : InitDpu(d)}
  /\ unit = InitUnit
  /\ last = NoCall
  /\ rank = NoRank /\ callers = NoCallers
  /\ m_thread = NoThread /\ unwind = NoUnwind

\* The caller of the last call has taken its result: a call is made when the
\* record of the previous one has been dropped.
Returned == last = NoCall

\* StopThreads may also follow a StopThreads whose record is still there,
\* which shows two of them in a row.
DoStopThreads ==
  /\ Returned \/ last.op = "StopThreads"
  /\ \E ok \in (IF dpu.dpu_is_running THEN OkPairs ELSE {<<TRUE, TRUE>>}) :
     \E hwctx \in Reports(dpu.dpu_is_running, ok[1] /\ ok[2],
                          ResetContext(dpu.m_context)) :
       LET r == StopThreads(dpu, ok[1], ok[2], hwctx)
       IN /\ dpu' = r.d
          /\ last' = [NoCall EXCEPT !.op = "StopThreads", !.flag = FALSE,
                                    !.ok = r.ret, !.trace = r.trace,
                                    !.handed = r.handed, !.hw_ok = r.hw_ok]
          /\ UNCHANGED <<unit, rankVars, unwindVars>>

\* StopThreadsUnlock(true), as DpuRank::StopDpus calls it.
DoStopThreadsUnlock ==
  /\ Returned
  /\ \E ok \in OkPairs :
     \E hwctx \in Reports(TRUE, ok[1] /\ ok[2],
                          ResetContext(dpu.m_context)) :
       LET r == StopThreadsUnlock(dpu, TRUE, ok[1], ok[2], hwctx)
       IN /\ dpu' = r.d
          /\ last' = [NoCall EXCEPT !.op = "StopThreadsUnlock", !.flag = TRUE,
                                    !.ok = r.ret, !.trace = r.trace,
                                    !.handed = r.handed, !.hw_ok = r.hw_ok]
          /\ UNCHANGED <<unit, rankVars, unwindVars>>

DoPollStatus ==
  /\ Returned
  /\ \E hw_running, hw_fault \in BOOLEAN :
       LET stops == dpu.dpu_is_running /\ (hw_fault \/ ~hw_running)
       IN \E ok \in (IF stops THEN OkPairs ELSE {<<TRUE, TRUE>>}) :
          \E hwctx \in Reports(stops, ok[1] /\ ok[2],
                               ResetContext(dpu.m_context)) :
            LET r == PollStatus(dpu, hw_running, hw_fault, ok[1], ok[2], hwctx)
            IN /\ dpu' = r.d
               /\ last' = [NoCall EXCEPT !.op = "PollStatus", !.state = r.ret,
                                         !.hw_running = hw_running,
                                         !.hw_fault = hw_fault,
                                         !.trace = r.trace, !.handed = r.handed,
                                         !.exit_status = r.exit_status,
                                         !.hw_ok = r.hw_ok]
                    /\ UNCHANGED <<unit, rankVars, unwindVars>>

DoResumeThreads ==
  /\ Returned
  /\ \E allowed_polling \in BOOLEAN, ok \in OkPairs :
       LET r == ResumeThreads(dpu, allowed_polling, ok[1], ok[2])
       IN /\ dpu' = r.d
          /\ last' = [NoCall EXCEPT !.op = "ResumeThreads",
                                    !.flag = allowed_polling, !.ok = r.ret,
                                    !.trace = r.trace, !.pushed = r.pushed,
                                    !.hw_ok = r.hw_ok,
                                    !.ok_restore = ok[1],
                                    !.bkp_pending = dpu.m_context.bkp_fault]
          /\ UNCHANGED <<unit, rankVars, unwindVars>>

DoStepThread ==
  /\ Returned
  /\ \E thread_index \in Threads :
       LET steps == /\ IsContextReadyForResumeOrStep(dpu.m_context)
                    /\ IsScheduled(dpu.m_context, thread_index)
       IN \E ok \in (IF steps THEN OkTriples ELSE {<<TRUE, TRUE, TRUE>>}) :
          \E hwctx \in Reports(steps, ok[2] /\ ok[3],
                               ClearBkpFault(dpu.m_context)) :
            LET r == StepThread(dpu, thread_index, ok[1], ok[2], ok[3], hwctx)
            IN /\ dpu' = r.d
               /\ last' = [NoCall EXCEPT !.op = "StepThread",
                                         !.thread = thread_index,
                                         !.state = r.ret, !.trace = r.trace,
                                         !.pushed = r.pushed,
                                         !.exit_status = r.exit_status,
                                         !.hw_ok = r.hw_ok,
                                         !.ok_restore = ok[1],
                                         !.bkp_pending = dpu.m_context.bkp_fault]
                    /\ UNCHANGED <<unit, rankVars, unwindVars>>

DoThreadContextRegs ==
  /\ Returned
  /\ \E thread_index \in Threads, value \in RegVals :
       /\ dpu' = ThreadContextRegs(dpu, thread_index, value)
       /\ last' = [NoCall EXCEPT !.op = "ThreadContextRegs",
                                 !.thread = thread_index, !.value = value]
       /\ UNCHANGED <<unit, rankVars, unwindVars>>

DoThreadRegistersHasBeenModified ==
  /\ Returned
  /\ \E value \in BOOLEAN :
       /\ dpu' = ThreadRegistersHasBeenModified(dpu, value)
       /\ last' = [NoCall EXCEPT !.op = "ThreadRegistersHasBeenModified",
                                 !.flag = value]
       /\ UNCHANGED <<unit, rankVars, unwindVars>>

Return ==
  /\ ~Returned
  /\ last' = NoCall
  /\ UNCHANGED <<dpu, unit, rankVars, unwindVars>>

Next ==
  \/ Return
  \/ DoStopThreads
  \/ DoStopThreadsUnlock
  \/ DoPollStatus
  \/ DoResumeThreads
  \/ DoStepThread
  \/ DoThreadContextRegs
  \/ DoThreadRegistersHasBeenModified

Spec == Init /\ [][Next]_vars

\* ------------------------------------------------- claims checked on Spec
\* The step is a ResumeThreads or a StepThread call.
IsResume == last'.op = "ResumeThreads"
IsStep == last'.op = "StepThread"
IsStop == last'.op = "StopThreads"
IsForcedStop == last'.op = "StopThreadsUnlock"

\* C2, as amended.  With a DMA or a memory fault in the context ResumeThreads
\* returns failure and StepThread returns Crashed, and neither issues a vendor
\* call.  With only a breakpoint fault pending, ResumeThreads clears the flag,
\* issues the finalize call and returns whether its vendor calls succeeded;
\* StepThread does the same (step call issued, Stopped or Exited when its
\* vendor calls succeed) for a scheduled thread, and for an unscheduled thread
\* clears the flag, issues no vendor call and returns Stopped.
C2_Step(scheduled_only) ==
  LET c == dpu.m_context
      faulty == c.dma_fault \/ c.mem_fault
      cmds == Cmds(last'.trace)
      stepped == \E i \in 1 .. Len(cmds) :
                   cmds[i] = "execute_thread_step_in_fault"
  IN /\ (IsResume /\ faulty) => (~last'.ok /\ cmds = <<>>)
     /\ (IsStep /\ faulty) => (last'.state = eStateCrashed /\ cmds = <<>>)
     /\ (IsResume /\ ~faulty /\ c.bkp_fault) =>
          /\ ~dpu'.m_context.bkp_fault
          /\ \E i \in 1 .. Len(cmds) : cmds[i] = "finalize_fault_process"
          /\ last'.ok = last'.hw_ok
     /\ (IsStep /\ ~faulty /\ c.bkp_fault
           /\ (scheduled_only => c.scheduling[last'.thread] # Unscheduled)) =>
          /\ stepped
          /\ last'.hw_ok => last'.state \in {eStateStopped, eStateExited}
     /\ (IsStep /\ ~faulty /\ c.bkp_fault /\ scheduled_only
           /\ c.scheduling[last'.thread] = Unscheduled) =>
          /\ ~dpu'.m_context.bkp_fault
          /\ cmds = <<>>
          /\ last'.state = eStateStopped

C2_Amended == [][C2_Step(TRUE)]_vars

\* C2 as stated: with only a breakpoint fault pending StepThread, like
\* ResumeThreads, proceeds to its vendor calls, whatever thread it is given.
C2_Original == [][C2_Step(FALSE)]_vars

\* A StepThread call made with only a breakpoint fault pending, for a thread
\* that is not scheduled, has returned Stopped without a vendor call.
C2_Witness ==
  /\ last.op = "StepThread"
  /\ last.bkp_pending
  /\ ~dpu.m_context.bkp_fault
  /\ ~dpu.m_context.dma_fault /\ ~dpu.m_context.mem_fault
  /\ dpu.m_context.scheduling[last.thread] = Unscheduled
  /\ Cmds(last.trace) = <<>>
  /\ last.state = eStateStopped

\* C3, as amended.  StepThread for a thread whose scheduling byte is 0xFF
\* performs no link transaction; it returns Stopped when the context carries
\* neither a DMA nor a memory fault and Crashed when it carries one.
C3_Step(any_flags) ==
  LET c == dpu.m_context
      faulty == c.dma_fault \/ c.mem_fault
  IN (IsStep /\ c.scheduling[last'.thread] = Unscheduled) =>
       /\ Cmds(last'.trace) = <<>>
       /\ last'.state = IF faulty /\ ~any_flags THEN eStateCrashed
                        ELSE eStateStopped

C3_Amended == [][C3_Step(FALSE)]_vars

\* C3 as stated: Stopped whatever the fault flags are.
C3_Original == [][C3_Step(TRUE)]_vars

\* A StepThread call for an unscheduled thread, made with a DMA fault in the
\* context, has returned Crashed without a vendor call.
C3_Witness ==
  /\ last.op = "StepThread"
  /\ dpu.m_context.scheduling[last.thread] = Unscheduled
  /\ dpu.m_context.dma_fault
  /\ Cmds(last.trace) = <<>>
  /\ last.state = eStateCrashed

\* C4, as amended.  A StopThreads on a logically running unit, and a forced
\* StopThreadsUnlock, hand the vendor calls a context in which every
\* scheduling byte is 0xFF, the running-thread count is 0 and the three fault
\* flags are clear, and the unit is not logically running afterwards; what the
\* context holds after the call is what the vendor calls left in it.  A
\* StopThreads on a unit that is not logically running leaves the context as
\* it is.
C4_Step ==
  LET all_reset == [scheduling |-> [t \in Threads |-> Unscheduled],
                    nr_of_running_threads |-> 0, bkp_fault |-> FALSE,
                    dma_fault |-> FALSE, mem_fault |-> FALSE]
  IN /\ (IsForcedStop \/ (IsStop /\ dpu.dpu_is_running)) =>
          /\ last'.handed = Some(all_reset)
          /\ Cmds(last'.trace)
               = <<"initialize_fault_process", "extract_context">>
          /\ ~dpu'.dpu_is_running
     /\ (IsStop /\ ~dpu.dpu_is_running) =>
          dpu'.m_context = dpu.m_context

C4_Amended == [][C4_Step]_vars

\* C4 as stated: after StopThreads or a forced StopThreadsUnlock every
\* scheduling byte of the context is 0xFF and the running-thread count is 0.
C4_Original ==
  last.op \in {"StopThreads", "StopThreadsUnlock"} =>
    /\ \A t \in Threads : dpu.m_context.scheduling[t] = Unscheduled
    /\ dpu.m_context.nr_of_running_threads = 0

\* A StopThreads call has reset the context, issued its vendor calls, and the
\* context now lists a scheduled thread.
C4_Witness ==
  /\ last.op = "StopThreads"
  /\ last.handed # None
  /\ last.ok
  /\ \E t \in Threads : dpu.m_context.scheduling[t] # Unscheduled
  /\ dpu.m_context.nr_of_running_threads # 0

\* C5.  A StopThreads on a unit that is not logically running issues no link
\* transaction, leaves the Dpu (its context included) unchanged and returns
\* success; after any StopThreads the unit is not logically running, so a
\* StopThreads right after a StopThreads issues no link transaction and
\* returns success.
C5_Step ==
  /\ (IsStop /\ ~dpu.dpu_is_running) =>
       /\ Cmds(last'.trace) = <<>>
       /\ dpu' = dpu
       /\ last'.ok
  /\ IsStop => ~dpu'.dpu_is_running
  /\ (IsStop /\ last.op = "StopThreads") =>
       /\ Cmds(last'.trace) = <<>>
       /\ last'.ok

C5_Idempotent == [][C5_Step]_vars

\* A StopThreads call has returned success without a link transaction.
C5_Witness ==
  /\ last.op = "StopThreads"
  /\ Cmds(last.trace) = <<>>
  /\ last.ok
  /\ ~dpu.dpu_is_running

\* C6.  A store through ThreadContextRegs puts the value into the in-memory
\* context and a store through ThreadRegistersHasBeenModified sets the dirty
\* bit.  A ResumeThreads that passes the fault pre-check with the dirty
\* bit set issues the restore call, with the registers of the in-memory
\* context as they were at the call, before the finalize call, and clears the
\* dirty bit; with the dirty bit clear it issues the finalize call only.
C6_Step ==
  LET c == dpu.m_context
      passes == ~c.dma_fault /\ ~c.mem_fault
  IN /\ last'.op = "ThreadContextRegs" =>
          dpu'.m_context.registers[last'.thread] = last'.value
     /\ last'.op = "ThreadRegistersHasBeenModified" =>
          dpu'.registers_has_been_modified = last'.flag
     /\ (IsResume /\ passes /\ dpu.registers_has_been_modified) =>
          /\ Cmds(last'.trace)
               = <<"restore_context", "finalize_fault_process">>
          /\ last'.pushed = Some(c.registers)
          /\ ~dpu'.registers_has_been_modified
     /\ (IsResume /\ passes /\ ~dpu.registers_has_been_modified) =>
          /\ Cmds(last'.trace) = <<"finalize_fault_process">>
          /\ last'.pushed = None
          /\ ~dpu'.registers_has_been_modified

C6_PushBeforeResume == [][C6_Step]_vars

\* A ResumeThreads call has pushed, before the finalize call, registers that
\* differ between two threads: the hardware reports one value in all
\* registers, so one of the two was stored through ThreadContextRegs.
C6_Witness ==
  /\ last.op = "ResumeThreads"
  /\ Cmds(last.trace) = <<"restore_context", "finalize_fault_process">>
  /\ last.pushed # None
  /\ \E t1, t2 \in Threads : last.pushed[1][t1] # last.pushed[1][t2]
  /\ last.pushed[1] = dpu.m_context.registers
  /\ ~dpu.registers_has_been_modified

\* ------------------------------------------------------- Dpu::GetThreadState
\* The stop reasons GetThreadState reports.
eStopReasonNone == "eStopReasonNone"
eStopReasonTrace == "eStopReasonTrace"
eStopReasonBreakpoint == "eStopReasonBreakpoint"
eStopReasonException == "eStopReasonException"

\* The contexts GetThreadState is examined on: every combination of the
\* scheduling bytes, the fault flags, their thread indexes and zero or
\* non-zero program counters.
StateContexts ==
  {[scheduling |-> s, nr_of_running_threads |-> Cardinality(Scheduled(s)),
    bkp_fault |-> f[1], dma_fault |-> f[2], mem_fault |-> f[3],
    bkp_fault_thread_index |-> i[1], dma_fault_thread_index |-> i[2],
    mem_fault_thread_index |-> i[3],
    registers |-> [t \in Threads |-> 0], pcs |-> p] :
     s \in [Threads -> SchedBytes],
     f \in BOOLEAN \X BOOLEAN \X BOOLEAN,
     i \in Threads \X Threads \X Threads,
     p \in [Threads -> {0, 1}]}

\* A description of None leaves the caller's string as it was.
GetThreadStateDmaFirst(c, thread_index, stepping) ==
  IF c.dma_fault /\ c.dma_fault_thread_index = thread_index
  THEN [state |-> eStateCrashed, stop_reason |-> eStopReasonException,
        description |-> Some("dma fault")]
  ELSE IF c.bkp_fault /\ c.bkp_fault_thread_index = thread_index
  THEN [state |-> eStateStopped, stop_reason |-> eStopReasonBreakpoint,
        description |-> None]
  ELSE IF c.mem_fault /\ c.mem_fault_thread_index = thread_index
  THEN [state |-> eStateCrashed, stop_reason |-> eStopReasonException,
        description |-> Some("memory fault")]
  ELSE IF c.scheduling[thread_index] # Unscheduled /\ stepping
  THEN [state |-> eStateStopped, stop_reason |-> eStopReasonTrace,
        description |-> Some("stepping")]
  ELSE IF c.pcs[thread_index] # 0 /\ stepping
  THEN [state |-> eStateStopped, stop_reason |-> eStopReasonTrace,
        description |-> Some("stopped")]
  ELSE [state |-> eStateStopped, stop_reason |-> eStopReasonNone,
        description |-> None]

GetThreadState(c, thread_index, stepping) ==
  IF c.bkp_fault /\ c.bkp_fault_thread_index = thread_index
  THEN [state |-> eStateStopped, stop_reason |-> eStopReasonBreakpoint,
        description |-> None]
  ELSE IF c.dma_fault /\ c.dma_fault_thread_index = thread_index
  THEN [state |-> eStateCrashed, stop_reason |-> eStopReasonException,
        description |-> Some("dma fault")]
  ELSE IF c.mem_fault /\ c.mem_fault_thread_index = thread_index
  THEN [state |-> eStateCrashed, stop_reason |-> eStopReasonException,
        description |-> Some("memory fault")]
  ELSE IF c.scheduling[thread_index] # Unscheduled /\ stepping
  THEN [state |-> eStateStopped, stop_reason |-> eStopReasonTrace,
        description |-> Some("stepping")]
  ELSE IF c.pcs[thread_index] # 0 /\ stepping
  THEN [state |-> eStateStopped, stop_reason |-> eStopReasonTrace,
        description |-> Some("stopped")]
  ELSE [state |-> eStateStopped, stop_reason |-> eStopReasonNone,
        description |-> None]

\* A stopped unit with any context, queried for its threads' states.
InitState ==
  /\ dpu \in [m_context : StateContexts, dpu_is_running : {FALSE},
              registers_has_been_modified : {FALSE}]
  /\ unit = InitUnit
  /\ last = NoCall
  /\ rank = NoRank /\ callers = NoCallers
  /\ m_thread = NoThread /\ unwind = NoUnwind

DoGetThreadState ==
  \E thread_index \in Threads, stepping \in BOOLEAN :
    /\ LET r == GetThreadState(dpu.m_context, thread_index, stepping)
       IN last' = [NoCall EXCEPT
                     !.op = "GetThreadState", !.thread = thread_index,
                     !.flag = stepping, !.state = r.state,
                     !.stop_reason = r.stop_reason,
                     !.description = r.description]
    /\ UNCHANGED <<dpu, unit, rankVars, unwindVars>>

NextState == DoGetThreadState

SpecState == InitState /\ [][NextState]_vars

\* C7.  GetThreadState leaves the context as it is and applies, for the
\* thread queried, the first rule that matches: a breakpoint fault attributed
\* to the thread gives Stopped / breakpoint; else a DMA fault attributed to it
\* gives Crashed / exception "dma fault"; else a memory fault attributed to it
\* gives Crashed / exception "memory fault"; else a scheduled thread with the
\* stepping flag gives Stopped / trace "stepping"; else a non-zero program
\* counter with the stepping flag gives Stopped / trace "stopped"; else
\* Stopped with no stop reason.
C7_Step ==
  LET c == dpu.m_context
      t == last'.thread
      r == last'
      bkp == c.bkp_fault /\ c.bkp_fault_thread_index = t
      dma == c.dma_fault /\ c.dma_fault_thread_index = t
      mem == c.mem_fault /\ c.mem_fault_thread_index = t
      stepping == last'.flag /\ c.scheduling[t] # Unscheduled
      stopped == last'.flag /\ c.pcs[t] # 0
  IN last'.op = "GetThreadState" =>
       /\ dpu' = dpu
       /\ bkp => /\ r.state = eStateStopped
                 /\ r.stop_reason = eStopReasonBreakpoint
       /\ (~bkp /\ dma) =>
            /\ r.state = eStateCrashed
            /\ r.stop_reason = eStopReasonException
            /\ r.description = Some("dma fault")
       /\ (~bkp /\ ~dma /\ mem) =>
            /\ r.state = eStateCrashed
            /\ r.stop_reason = eStopReasonException
            /\ r.description = Some("memory fault")
       /\ (~bkp /\ ~dma /\ ~mem /\ stepping) =>
            /\ r.state = eStateStopped
            /\ r.stop_reason = eStopReasonTrace
            /\ r.description = Some("stepping")
       /\ (~bkp /\ ~dma /\ ~mem /\ ~stepping /\ stopped) =>
            /\ r.state = eStateStopped
            /\ r.stop_reason = eStopReasonTrace
            /\ r.description = Some("stopped")
       /\ (~bkp /\ ~dma /\ ~mem /\ ~stepping /\ ~stopped) =>
            /\ r.state = eStateStopped
            /\ r.stop_reason = eStopReasonNone

C7_Precedence == [][C7_Step]_vars

\* A thread with both a breakpoint fault and a DMA fault attributed to it has
\* been reported Stopped at a breakpoint.
C7_Witness ==
  /\ last.op = "GetThreadState"
  /\ dpu.m_context.bkp_fault /\ dpu.m_context.dma_fault
  /\ dpu.m_context.bkp_fault_thread_index = last.thread
  /\ dpu.m_context.dma_fault_thread_index = last.thread
  /\ last.state = eStateStopped
  /\ last.stop_reason = eStopReasonBreakpoint

\* ---------------------------------------------------------------- UnwindDPU
\* The longest cursor chain a walk is followed to.
MaxFrames == 4

\* 16-bit limbs.
Limb == 2 ^ 16

\* The constructor value of a Cursor's start_pc and cfa: all 64 bits set.
LLDB_INVALID_ADDRESS == <<65535, 65535, 65535, 65535>>

\* 0xffffffff00000db9, the cursor value that ends the walk.
StackEnd == <<3513, 0, 65535, 65535>>

\* A 32-bit register value as a 64-bit word (RegisterValue::GetAsUInt32,
\* widened to lldb::addr_t).
UInt32(n) == <<n % Limb, n \div Limb, 0, 0>>

\* v - k in 64 bits, for 0 <= k < 2^16.
Sub64(v, k) ==
  LET b1 == IF v[1] < k THEN 1 ELSE 0
      b2 == IF v[2] < b1 THEN 1 ELSE 0
      b3 == IF v[3] < b2 THEN 1 ELSE 0
  IN <<(v[1] + Limb - k) % Limb, (v[2] + Limb - b1) % Limb,
       (v[3] + Limb - b2) % Limb, (v[4] + Limb - b3) % Limb>>

\* v * 8 in 64 bits.
Mul8(v) ==
  LET t1 == v[1] * 8
      t2 == v[2] * 8 + (t1 \div Limb)
      t3 == v[3] * 8 + (t2 \div Limb)
      t4 == v[4] * 8 + (t3 \div Limb)
  IN <<t1 % Limb, t2 % Limb, t3 % Limb, t4 % Limb>>

\* 0x80000000 | v.
Or80000000(v) == [v EXCEPT ![2] = IF @ >= 32768 THEN @ ELSE @ + 32768]

\* 0xffffffff & v.
And32(v) == <<v[1], v[2], 0, 0>>

\* The frame addresses of the memory images, and the addresses the walk
\* reads for them.
FrameAddrs == {100, 150, 200}
MemAddrs == {f - 4 : f \in FrameAddrs} \cup {f - 8 : f \in FrameAddrs}

\* A 32-bit word of memory is two limbs; Unreadable marks an address whose
\* read fails.
Unreadable == <<>>
Word(n) == <<n % Limb, n \div Limb>>
NextWords == {Word(f) : f \in FrameAddrs} \cup {Word(3513), Unreadable}
RawWords == {Word(0), Word(5), Word(536870913), Unreadable}

\* Process::ReadMemory(addr, buf, 4, error) into the first four bytes of a
\* 64-bit cursor field: on failure the field keeps what it held.  Addresses
\* outside the image are not readable.
ReadMemory(memory, addr, field) ==
  LET a == addr[1] + Limb * (addr[2] % 32768)
      word == IF addr[3] = 0 /\ addr[4] = 0 /\ addr[2] < 32768
                 /\ a \in DOMAIN memory
              THEN memory[a] ELSE Unreadable
  IN IF word = Unreadable THEN field
     ELSE <<word[1], word[2], field[3], field[4]>>

\* The start_pc the walk stores for a cursor whose start_pc field holds the
\* word read at cfa - 8.
FramePcNoDecrement(start_pc) == And32(Or80000000(Mul8(start_pc)))

FramePc(start_pc) == And32(Or80000000(Mul8(Sub64(start_pc, 1))))

\* UnwindDPU::setFrame.  A Cursor is constructed with no register context.
setFrameNoRegCtx(u, cfa, pc, reg_ctx_sp) ==
  LET frame == [cfa |-> cfa, start_pc |-> pc, reg_ctx_sp |-> None]
  IN [u EXCEPT !.m_frames = Append(@, frame), !.prev_frame = Some(frame)]

setFrame(u, cfa, pc, reg_ctx_sp) ==
  LET frame == [cfa |-> cfa, start_pc |-> pc, reg_ctx_sp |-> reg_ctx_sp]
  IN [u EXCEPT !.m_frames = Append(@, frame), !.prev_frame = Some(frame)]

\* The caching test of DoGetFrameCount: !m_frames.empty().
IsCachedBeyondFirst(u) == Len(u.m_frames) > 1

IsCached(u) == u.m_frames # <<>>

\* What DoGetFrameInfoAtIndex and DoCreateRegisterContextForFrame do once
\* DoGetFrameCount has returned.
GetFrameInfoAtIndex(u, frame_idx) ==
  [u EXCEPT !.found = frame_idx < Len(u.m_frames),
            !.frame = IF frame_idx >= Len(u.m_frames) THEN None
                      ELSE Some([cfa |-> u.m_frames[frame_idx + 1].cfa,
                                 start_pc |->
                                   u.m_frames[frame_idx + 1].start_pc])]

CreateRegisterContextForFrame(u, frame_idx) ==
  [u EXCEPT !.reg_ctx = IF frame_idx >= Len(u.m_frames) THEN None
                        ELSE u.m_frames[frame_idx + 1].reg_ctx_sp]

\* The call that made DoGetFrameCount walk goes on with the frame count.
AfterFrameCount(u) ==
  IF u.op = "DoGetFrameInfoAtIndex" THEN GetFrameInfoAtIndex(u, u.idx)
  ELSE IF u.op = "DoCreateRegisterContextForFrame"
  THEN CreateRegisterContextForFrame(u, u.idx)
  ELSE [u EXCEPT !.ret = Len(u.m_frames)]

\* A thread with a frame pointer, a program counter and a memory image.
InitUnwind ==
  /\ m_thread \in {[r22 |-> r, pc |-> p, reg_ctx |-> 1,
                    memory |-> [a \in MemAddrs |->
                                  IF a + 4 \in FrameAddrs THEN next[a + 4]
                                  ELSE raw[a + 8]]] :
                     r \in FrameAddrs, p \in {0, 64},
                     next \in [FrameAddrs -> NextWords],
                     raw \in [FrameAddrs -> RawWords]}
  /\ unwind = NoUnwind
  /\ dpu = IdleDpu /\ unit = InitUnit /\ last = NoCall
  /\ rank = NoRank /\ callers = NoCallers

\* DoGetFrameCount with frames cached: their number.
FrameCountCached ==
  /\ ~unwind.walking
  /\ IsCached(unwind)
  /\ unwind' = [unwind EXCEPT !.op = "DoGetFrameCount", !.idx = 0,
                              !.ret = Len(unwind.m_frames)]
  /\ UNCHANGED <<dpuVars, rankVars, m_thread>>

\* DoGetFrameCount with no frame cached, up to the loop: frame 0 from r22
\* and pc.
FirstFrame(u, thread, op, frame_idx) ==
  [setFrame(u, UInt32(thread.r22), UInt32(thread.pc), Some(thread.reg_ctx))
     EXCEPT !.walking = TRUE, !.op = op, !.idx = frame_idx, !.ret = 0,
            !.walks = @ + 1]

WalkBegin ==
  /\ ~unwind.walking
  /\ ~IsCached(unwind)
  /\ unwind' = FirstFrame(unwind, m_thread, "DoGetFrameCount", 0)
  /\ UNCHANGED <<dpuVars, rankVars, m_thread>>

\* One iteration of the loop: the two reads, then either the break and the
\* return of m_frames.size(), or setFrame and prev_frame = next_frame.
\* The walk's local reg_ctx_sp is the one frame 0 was given.
WalkStep ==
  /\ unwind.walking
  /\ Len(unwind.m_frames) < MaxFrames
  /\ LET prev == unwind.prev_frame[1]
         cfa == ReadMemory(m_thread.memory, Sub64(prev.cfa, 4),
                           LLDB_INVALID_ADDRESS)
         start_pc == ReadMemory(m_thread.memory, Sub64(prev.cfa, 8),
                                LLDB_INVALID_ADDRESS)
     IN unwind' = IF cfa = StackEnd
                  THEN AfterFrameCount([unwind EXCEPT !.walking = FALSE,
                                                      !.prev_frame = None])
                  ELSE setFrame(unwind, And32(cfa), FramePc(start_pc),
                                unwind.m_frames[1].reg_ctx_sp)
  /\ UNCHANGED <<dpuVars, rankVars, m_thread>>

\* UnwindDPU::DoClear.
DoClear ==
  /\ ~unwind.walking
  /\ unwind.m_frames # <<>>
  /\ unwind' = [unwind EXCEPT !.m_frames = <<>>, !.op = "DoClear",
                              !.idx = 0, !.ret = 0, !.walks = 0]
  /\ UNCHANGED <<dpuVars, rankVars, m_thread>>

\* UnwindDPU::DoGetFrameInfoAtIndex with frames cached.
DoGetFrameInfoAtIndex ==
  \E frame_idx \in 0 .. MaxFrames :
    /\ ~unwind.walking
    /\ IsCached(unwind)
    /\ unwind' = GetFrameInfoAtIndex(
                    [unwind EXCEPT !.op = "DoGetFrameInfoAtIndex",
                                   !.idx = frame_idx], frame_idx)
    /\ UNCHANGED <<dpuVars, rankVars, m_thread>>

NextUnwind ==
  \/ FrameCountCached
  \/ WalkBegin
  \/ WalkStep
  \/ DoClear
  \/ DoGetFrameInfoAtIndex

SpecUnwind == InitUnwind /\ [][NextUnwind]_vars

\* The chain the claim describes, read off the memory image: ChainLength is
\* n, the number of frame addresses from f up to the one whose word at
\* f - 4 is 0x00000DB9 (0 when an address of the chain is unreadable or the
\* chain is longer than k); ChainFrame is the k-th frame after the one at f
\* whose start_pc is pc.
RECURSIVE ChainLength(_, _)
ChainLength(f, k) ==
  LET m == m_thread.memory
  IN IF k = 0 \/ f \notin FrameAddrs THEN 0
     ELSE IF m[f - 4] = Unreadable \/ m[f - 8] = Unreadable THEN 0
     ELSE IF m[f - 4] = Word(3513) THEN 1
     ELSE LET rest == ChainLength(m[f - 4][1], k - 1)
          IN IF rest = 0 THEN 0 ELSE rest + 1

\* 0xFFFFFFFF & (0x80000000 | ((raw - 1) * 8)) for a raw word below 2^31.
DecodedPc(raw) ==
  LET x == (raw + 536870911) % 536870912
      hi == x \div 8192
  IN <<(x % 8192) * 8, IF hi >= 32768 THEN hi ELSE hi + 32768, 0, 0>>

RECURSIVE ChainFrame(_, _, _)
ChainFrame(f, pc, k) ==
  LET m == m_thread.memory
  IN IF k = 0 THEN [cfa |-> UInt32(f), start_pc |-> pc,
                    reg_ctx_sp |-> Some(m_thread.reg_ctx)]
     ELSE ChainFrame(m[f - 4][1],
                     DecodedPc(m[f - 8][1] + Limb * m[f - 8][2]), k - 1)

\* C9.  When the memory image holds a chain of n frame addresses from r22
\* whose reads all succeed and whose last word at cfa - 4 is 0x00000DB9 (the
\* cursor then holds 0xFFFFFFFF00000DB9), the walk returns n, and the frames
\* it leaves are: frame 0 with cfa r22 and start_pc pc, and frame k >= 1
\* with the k-th frame address as cfa and
\* 0xFFFFFFFF & (0x80000000 | ((raw - 1) * 8)) as start_pc, raw being the
\* word at the previous frame address - 8.
C9_Walk ==
  LET n == ChainLength(m_thread.r22, MaxFrames)
  IN (~unwind.walking /\ unwind.m_frames # <<>> /\ n > 0) =>
       /\ Len(unwind.m_frames) = n
       /\ unwind.op = "DoGetFrameCount" => unwind.ret = n
       /\ \A k \in 0 .. (n - 1) :
            unwind.m_frames[k + 1]
              = ChainFrame(m_thread.r22, UInt32(m_thread.pc), k)

\* The walk from cfa 200 with 150 at 196, raw word 5 at 192 and the end
\* marker at 146 has returned 2 frames, the second with start_pc 0x80000020;
\* and a walk has stored the start_pc of a raw word whose product does not
\* fit 32 bits.
C9_Witness ==
  /\ ~unwind.walking
  /\ unwind.op = "DoGetFrameCount" /\ unwind.ret = 2
  /\ m_thread.r22 = 200
  /\ m_thread.memory[196] = Word(150) /\ m_thread.memory[192] = Word(5)
  /\ m_thread.memory[146] = Word(3513)
  /\ unwind.m_frames[1].cfa = UInt32(200)
  /\ unwind.m_frames[2] = [cfa |-> UInt32(150),
                           start_pc |-> <<32, 32768, 0, 0>>,
                           reg_ctx_sp |-> Some(m_thread.reg_ctx)]

\* C10.  An iteration of the walk whose read of the frame address at
\* cfa - 4 fails ends the walk: no cursor is added.
C10_Step ==
  LET prev == unwind.prev_frame[1]
      addr == Sub64(prev.cfa, 4)
      a == addr[1] + Limb * (addr[2] % 32768)
      fails == \/ addr[3] # 0 \/ addr[4] # 0 \/ addr[2] >= 32768
               \/ a \notin DOMAIN m_thread.memory
               \/ m_thread.memory[a] = Unreadable
  IN (unwind.walking /\ unwind' # unwind /\ fails) =>
       /\ ~unwind'.walking
       /\ unwind'.m_frames = unwind.m_frames

C10_StopsAtReadFailure == [][C10_Step]_vars

\* ------------------------------------------------------------------ DpuRank
\* Concurrent callers, the largest topology and the number of Open calls
\* followed.
NrCallers == 2
MaxInterfaces == 2
MaxDpusPerInterface == 2
MaxOpens == 2

Callers == 1 .. NrCallers

\* dpu_get_description(m_rank)->topology.
Topologies ==
  [nr_of_control_interfaces : 1 .. MaxInterfaces,
   nr_of_dpus_per_control_interface : 1 .. MaxDpusPerInterface]

\* DpuRank::Open once dpu_get_rank_of_type has returned (ok: with success).
\* The Dpus are kept as the coordinates they were created with.
Open(r, ok, desc) ==
  IF ~ok THEN r
  ELSE LET per == desc.nr_of_dpus_per_control_interface
           n == desc.nr_of_control_interfaces * per
       IN [r EXCEPT !.m_rank = TRUE,
                    !.m_desc = Some(desc),
                    !.nr_dpus = n,
                    !.m_dpus = @ \o [i \in 1 .. n |->
                                       [slice_id |-> (i - 1) \div per,
                                        dpu_id |-> (i - 1) % per]]]

\* What Open does in order: the mutex, the vendor call, and on success the
\* construction of the Dpus.
OpenScript(ok) ==
  Locked(<<"get_rank_of_type">> \o (IF ok THEN <<"new_dpus">> ELSE <<>>))

\* DpuRank::Reset.
Reset == Locked(<<"reset_rank">>)

\* DpuRank::GetDpu.
GetDpu(r, index) ==
  IF index < Len(r.m_dpus) THEN Some(r.m_dpus[index + 1]) ELSE None

\* DpuRank::StopDpus over Dpus i .. n, the stop of Dpu number failing
\* failing (0: none does).
RECURSIVE StopDpus(_, _, _, _)
StopDpus(d, i, n, failing) ==
  IF i > n THEN [ret |-> TRUE, trace |-> <<>>]
  ELSE LET stop == StopThreadsUnlock(d, TRUE, i # failing, TRUE, AnyContext)
           rest == StopDpus(d, i + 1, n, failing)
       IN IF ~stop.ret THEN [ret |-> FALSE, trace |-> stop.trace]
          ELSE [ret |-> rest.ret, trace |-> stop.trace \o rest.trace]

\* DpuRank::ResumeDpus over Dpus i .. n, likewise.
RECURSIVE ResumeDpus(_, _, _, _)
ResumeDpus(d, i, n, failing) ==
  IF i > n THEN [ret |-> TRUE, trace |-> <<>>]
  ELSE LET resume == ResumeThreads(d, FALSE, TRUE, i # failing)
           rest == ResumeDpus(d, i + 1, n, failing)
       IN IF ~resume.ret THEN [ret |-> FALSE, trace |-> resume.trace]
          ELSE [ret |-> rest.ret, trace |-> resume.trace \o rest.trace]

\* The state of a Dpu is not followed in SpecRank: a call on a Dpu finds it
\* in one of these states.
RankDpuStates ==
  [m_context : {c \in HwContexts :
                  /\ ~c.bkp_fault /\ ~c.mem_fault
                  /\ c.registers = [t \in Threads |-> 0]
                  /\ \A t \in Threads : c.scheduling[t] = c.scheduling[0]},
   dpu_is_running : BOOLEAN, registers_has_been_modified : BOOLEAN]

\* What each Dpu operation does in order, over the states it may find and
\* the outcomes of its vendor calls.
StopThreadsScripts ==
  {StopThreads(d, TRUE, TRUE, AnyContext).trace : d \in RankDpuStates}

PollStatusScripts ==
  {PollStatus(d, o[1], o[2], TRUE, TRUE, AnyContext).trace :
     d \in RankDpuStates, o \in BOOLEAN \X BOOLEAN}

ResumeThreadsScripts ==
  {ResumeThreads(d, TRUE, TRUE, TRUE).trace : d \in RankDpuStates}

StepThreadScripts ==
  {StepThread(d, 0, TRUE, TRUE, TRUE, AnyContext).trace :
     d \in RankDpuStates}

LoadElfScripts ==
  {LoadElf(InitUnit, ok, BreakpointInstruction, None).trace : ok \in BOOLEAN}

MemoryScripts ==
  {ReadIRAM(InitUnit, TRUE, BreakpointInstruction).trace,
   WriteIRAM(InitUnit, BreakpointInstruction, TRUE).trace,
   WriteWRAM, ReadWRAM, WriteMRAM, ReadMRAM}

BootScripts ==
  {Boot(IdleDpu, u, env).trace :
     u \in {InitUnit, [InitUnit EXCEPT !.debug_context = Some(AnyContext)]},
     env \in [ok_read : {TRUE}, garbage : {BreakpointInstruction},
              ok_write : {TRUE}, ok_pre : BOOLEAN, ok_launch : BOOLEAN,
              npolls : 0 .. MaxPolls, hw_running : BOOLEAN,
              hw_fault : BOOLEAN, ok_init : BOOLEAN, ok_extract : {TRUE},
              hwctx : {AnyContext}, ok_restore : {TRUE}]}

DpuScripts ==
  StopThreadsScripts \cup PollStatusScripts \cup ResumeThreadsScripts
    \cup StepThreadScripts \cup LoadElfScripts \cup MemoryScripts
    \cup BootScripts

\* What StopDpus and ResumeDpus do in order on a rank of n Dpus.
StopDpusScripts ==
  [n \in 0 .. (MaxOpens * MaxInterfaces * MaxDpusPerInterface) |->
     {StopDpus(d, 1, n, failing).trace :
        d \in RankDpuStates, failing \in 0 .. 1}]

ResumeDpusScripts ==
  [n \in 0 .. (MaxOpens * MaxInterfaces * MaxDpusPerInterface) |->
     {ResumeDpus(d, 1, n, failing).trace :
        d \in RankDpuStates, failing \in 0 .. 1}]

\* An unopened rank, no caller inside an operation.
InitRank ==
  /\ rank = NoRank
  /\ callers = [c \in Callers |-> [pc |-> <<>>, inflight |-> NoArg]]
  /\ dpu = IdleDpu /\ unit = InitUnit /\ last = NoCall
  /\ m_thread = NoThread /\ unwind = NoUnwind

Idle(c) == callers[c].pc = <<>> /\ callers[c].inflight = NoArg

\* Caller c enters an operation that does script in order.
Enter(c, script) ==
  /\ Idle(c)
  /\ script # <<>>
  /\ callers' = [callers EXCEPT ![c].pc = script]

\* Caller c, no vendor call of its own pending, is at a step of these.
At(c, steps) ==
  /\ callers[c].inflight = NoArg
  /\ callers[c].pc # <<>>
  /\ Head(callers[c].pc) \in steps

CallOpen(c) ==
  /\ rank.opens < MaxOpens
  /\ \E ok \in BOOLEAN : Enter(c, OpenScript(ok))
  /\ rank' = [rank EXCEPT !.opens = @ + 1]
  /\ UNCHANGED <<dpuVars, unwindVars>>

CallReset(c) ==
  /\ Enter(c, Reset)
  /\ UNCHANGED <<rank, dpuVars, unwindVars>>

CallStopDpus(c) ==
  /\ \E script \in StopDpusScripts[Len(rank.m_dpus)] : Enter(c, script)
  /\ UNCHANGED <<rank, dpuVars, unwindVars>>

CallResumeDpus(c) ==
  /\ \E script \in ResumeDpusScripts[Len(rank.m_dpus)] : Enter(c, script)
  /\ UNCHANGED <<rank, dpuVars, unwindVars>>

\* An operation of one of the rank's Dpus.
CallDpu(c) ==
  /\ rank.m_dpus # <<>>
  /\ \E script \in DpuScripts : Enter(c, script)
  /\ UNCHANGED <<rank, dpuVars, unwindVars>>

\* std::lock_guard's constructor: blocks until the mutex is free.
Acquire(c) ==
  /\ At(c, {"lock"})
  /\ rank.m_lock = 0
  /\ rank' = [rank EXCEPT !.m_lock = c]
  /\ callers' = [callers EXCEPT ![c].pc = Tail(@)]
  /\ UNCHANGED <<dpuVars, unwindVars>>

\* std::lock_guard's destructor.
Release(c) ==
  /\ At(c, {"unlock"})
  /\ rank' = [rank EXCEPT !.m_lock = 0]
  /\ callers' = [callers EXCEPT ![c].pc = Tail(@)]
  /\ UNCHANGED <<dpuVars, unwindVars>>

\* A vendor call starts its link transaction ...
BeginTransaction(c) ==
  /\ At(c, LinkCmds)
  /\ callers' = [callers EXCEPT ![c].inflight = Head(callers[c].pc),
                                ![c].pc = Tail(@)]
  /\ UNCHANGED <<rank, dpuVars, unwindVars>>

\* ... and returns.
EndTransaction(c) ==
  /\ callers[c].inflight # NoArg
  /\ callers' = [callers EXCEPT ![c].inflight = NoArg]
  /\ UNCHANGED <<rank, dpuVars, unwindVars>>

\* Open's loop, with the description the vendor library gives for the rank.
NewDpus(c) ==
  /\ At(c, {"new_dpus"})
  /\ \E desc \in Topologies : rank' = Open(rank, TRUE, desc)
  /\ callers' = [callers EXCEPT ![c].pc = Tail(@)]
  /\ UNCHANGED <<dpuVars, unwindVars>>

NextRank ==
  \E c \in Callers :
    \/ CallOpen(c)
    \/ CallReset(c)
    \/ CallStopDpus(c)
    \/ CallResumeDpus(c)
    \/ CallDpu(c)
    \/ Acquire(c)
    \/ Release(c)
    \/ BeginTransaction(c)
    \/ EndTransaction(c)
    \/ NewDpus(c)

SpecRank == InitRank /\ [][NextRank]_vars

\* C1.  A caller with a link transaction in progress holds the rank's mutex,
\* so no two callers have a link transaction in progress at once.
C1_Serialized ==
  /\ \A c \in Callers : callers[c].inflight # NoArg => rank.m_lock = c
  /\ Cardinality({c \in Callers : callers[c].inflight # NoArg}) <= 1

\* C8.  Once an Open has succeeded, the rank holds interfaces x
\* units-per-interface Dpus, the one at index i has coordinates
\* (i div units-per-interface, i mod units-per-interface), the coordinates
\* are pairwise distinct, and GetDpu(i) is that Dpu below the total and none
\* from the total on.
C8_Topology ==
  rank.m_rank =>
    LET per == rank.m_desc[1].nr_of_dpus_per_control_interface
        total == rank.m_desc[1].nr_of_control_interfaces * per
        bound == MaxOpens * MaxInterfaces * MaxDpusPerInterface
    IN /\ Len(rank.m_dpus) = total
       /\ \A i \in 0 .. (total - 1) :
            /\ rank.m_dpus[i + 1].slice_id = i \div per
            /\ rank.m_dpus[i + 1].dpu_id = i % per
            /\ GetDpu(rank, i) = Some(rank.m_dpus[i + 1])
       /\ \A i, j \in 1 .. Len(rank.m_dpus) :
            rank.m_dpus[i] = rank.m_dpus[j] => i = j
       /\ \A i \in total .. bound : GetDpu(rank, i) = None

\* ------------------------------------------------- SpecBoot: load and boot
\* The contexts of a unit around its boot: only the boot thread (thread 0)
\* may be scheduled, and there is no DMA and no memory fault.
BootContexts ==
  {c \in HwContexts :
     /\ \A t \in Threads : t # 0 => c.scheduling[t] = Unscheduled
     /\ ~c.dma_fault /\ ~c.mem_fault}

\* A Dpu on which nothing was called yet is not logically running (the
\* member's declaration, in DpuRank.h, gives its initial value).
NeverStarted(d) == ~d.dpu_is_running

BootReports(reached, ok, handed) ==
  IF ~reached THEN {AnyContext}
  ELSE IF ok THEN BootContexts
  ELSE BootContexts \cup {handed}

\* What the vendor library may do during one Boot.  Of a call Boot does not
\* reach, the outcome is fixed.
NoBootEnv ==
  [ok_read |-> TRUE, garbage |-> BreakpointInstruction, ok_write |-> TRUE,
   ok_pre |-> TRUE, ok_launch |-> TRUE, npolls |-> 0, hw_running |-> FALSE,
   hw_fault |-> TRUE, ok_init |-> TRUE, ok_extract |-> TRUE,
   hwctx |-> AnyContext, ok_restore |-> TRUE]

\* The read of the first instruction and the write of the breakpoint.
BootPrologues ==
  {[NoBootEnv EXCEPT !.ok_write = w] : w \in BOOLEAN}
    \cup {[NoBootEnv EXCEPT !.ok_read = FALSE, !.garbage = g, !.ok_write = w] :
            g \in Instructions, w \in BOOLEAN}

\* The last poll of the loop does not report a running unit without a fault.
BootPolls(p, handed) ==
  {[p EXCEPT !.npolls = n, !.hw_running = hw[1], !.hw_fault = hw[2],
             !.ok_init = ok[1], !.ok_extract = ok[2], !.hwctx = c,
             !.ok_restore = back] :
     n \in 0 .. MaxPolls,
     hw \in {<<FALSE, TRUE>>, <<TRUE, TRUE>>, <<FALSE, FALSE>>},
     ok \in OkPairs, c \in BootContexts \cup {handed}, back \in BOOLEAN}

BootEnvs(d, u) ==
  IF u.debug_context # None THEN {NoBootEnv}
  ELSE UNION {
         {[p EXCEPT !.ok_pre = FALSE], [p EXCEPT !.ok_launch = FALSE]}
           \cup {e \in BootPolls(p, ResetContext(d.m_context)) :
                   /\ e.hwctx \in BootReports(TRUE, e.ok_init /\ e.ok_extract,
                                              ResetContext(d.m_context))
                   /\ ~e.ok_restore => (e.hw_fault /\ e.ok_init /\ e.ok_extract)} :
         p \in BootPrologues}

InitBoot ==
  /\ dpu \in {d \in Dpus : d.m_context \in BootContexts /\ NeverStarted(d)}
  /\ unit = InitUnit
  /\ last = NoCall
  /\ rank = NoRank /\ callers = NoCallers
  /\ m_thread = NoThread /\ unwind = NoUnwind

DoLoadElf ==
  /\ Returned
  /\ \E ok \in BOOLEAN, word \in ProgramInstructions,
        core \in {None} \cup {Some(c) : c \in CoreContexts} :
       LET r == LoadElf(unit, ok, word, core)
       IN /\ unit' = r.u
          /\ last' = [NoCall EXCEPT !.op = "LoadElf", !.ok = r.ret,
                                    !.trace = r.trace]
          /\ UNCHANGED <<dpu, rankVars, unwindVars>>

DoBoot ==
  /\ Returned
  /\ \E env \in BootEnvs(dpu, unit) :
       LET r == Boot(dpu, unit, env)
       IN /\ dpu' = r.d
          /\ unit' = r.u
          /\ last' = [NoCall EXCEPT
                        !.op = "Boot", !.ok = r.ret, !.trace = r.trace,
                        !.written = r.written, !.polled = r.polled,
                        !.before = Some([dpu |-> dpu, unit |-> unit]),
                        !.env = Some(env)]
          /\ UNCHANGED <<rankVars, unwindVars>>

\* PollStatus, StopThreads and ResumeThreads on the unit SpecBoot follows.
BootPollStatus ==
  /\ Returned
  /\ \E hw_running, hw_fault \in BOOLEAN :
       LET stops == dpu.dpu_is_running /\ (hw_fault \/ ~hw_running)
       IN \E ok \in (IF stops THEN OkPairs ELSE {<<TRUE, TRUE>>}) :
          \E hwctx \in BootReports(stops, ok[1] /\ ok[2],
                                   ResetContext(dpu.m_context)) :
            LET r == PollStatus(dpu, hw_running, hw_fault, ok[1], ok[2], hwctx)
            IN /\ dpu' = r.d
               /\ last' = [NoCall EXCEPT !.op = "PollStatus", !.state = r.ret,
                                         !.hw_running = hw_running,
                                         !.hw_fault = hw_fault,
                                         !.trace = r.trace, !.handed = r.handed,
                                         !.exit_status = r.exit_status,
                                         !.hw_ok = r.hw_ok]
               /\ UNCHANGED <<unit, rankVars, unwindVars>>

BootStopThreads ==
  /\ Returned
  /\ \E ok \in (IF dpu.dpu_is_running THEN OkPairs ELSE {<<TRUE, TRUE>>}) :
     \E hwctx \in BootReports(dpu.dpu_is_running, ok[1] /\ ok[2],
                              ResetContext(dpu.m_context)) :
       LET r == StopThreads(dpu, ok[1], ok[2], hwctx)
       IN /\ dpu' = r.d
          /\ last' = [NoCall EXCEPT !.op = "StopThreads", !.flag = FALSE,
                                    !.ok = r.ret, !.trace = r.trace,
                                    !.handed = r.handed, !.hw_ok = r.hw_ok]
          /\ UNCHANGED <<unit, rankVars, unwindVars>>

BootResumeThreads ==
  /\ Returned
  /\ \E allowed_polling \in BOOLEAN, ok \in OkPairs :
       LET r == ResumeThreads(dpu, allowed_polling, ok[1], ok[2])
       IN /\ dpu' = r.d
          /\ last' = [NoCall EXCEPT !.op = "ResumeThreads",
                                    !.flag = allowed_polling, !.ok = r.ret,
                                    !.trace = r.trace, !.pushed = r.pushed,
                                    !.hw_ok = r.hw_ok,
                                    !.ok_restore = ok[1],
                                    !.bkp_pending = dpu.m_context.bkp_fault]
          /\ UNCHANGED <<unit, rankVars, unwindVars>>

NextBoot ==
  \/ Return
  \/ DoLoadElf
  \/ DoBoot
  \/ BootPollStatus
  \/ BootStopThreads
  \/ BootResumeThreads

SpecBoot == InitBoot /\ [][NextBoot]_vars

\* ---------------------------------------------- claims checked on SpecBoot
\* The step is a Boot of a unit that carries no saved context (fresh), or of
\* one that carries one.
IsFreshBoot == last'.op = "Boot" /\ unit.debug_context = None
IsCoreBoot == last'.op = "Boot" /\ unit.debug_context # None

\* The number of link transactions named cmd in a sequence of them.
Count(cmds, cmd) == Cardinality({i \in 1 .. Len(cmds) : cmds[i] = cmd})

\* C11.  A fresh Boot issues, in this order: the read of instruction word 0,
\* the write of the breakpoint opcode 0x00007E6320000000 to it and the
\* pre-execution command; when that command fails it returns failure; else
\* it launches the boot thread and returns failure when the launch fails;
\* else it polls, one link poll per PollStatus call, as long as the result is
\* Running, and returns success exactly when the first other result is
\* Stopped (a write of instruction word 0 then follows the last poll).
C11_Step ==
  LET e == last'.env[1]
      cmds == Cmds(last'.trace)
      polled == last'.polled
      n == Len(polled)
  IN IsFreshBoot =>
       /\ Len(cmds) >= 3
       /\ SubSeq(cmds, 1, 3)
            = <<"copy_from_iram", "copy_to_iram", "custom_preexecution">>
       /\ last'.written[1] = BreakpointInstruction
       /\ ~e.ok_pre => (Len(cmds) = 3 /\ ~last'.ok /\ n = 0)
       /\ e.ok_pre => (Len(cmds) >= 4 /\ cmds[4] = "launch_thread")
       /\ (e.ok_pre /\ ~e.ok_launch) =>
            (Len(cmds) = 4 /\ ~last'.ok /\ n = 0)
       /\ (e.ok_pre /\ e.ok_launch) =>
            /\ n >= 1
            /\ \A i \in 1 .. (n - 1) : polled[i] = eStateRunning
            /\ polled[n] # eStateRunning
            /\ Count(cmds, "poll_dpu") = n
            /\ \A i \in 5 .. (4 + n - 1) : cmds[i] = "poll_dpu"
            /\ cmds[4 + n] = "poll_dpu"
            /\ last'.ok <=> polled[n] = eStateStopped
            /\ last'.ok =>
                 /\ cmds[Len(cmds)] = "copy_to_iram"
                 /\ Count(cmds, "copy_to_iram") = 2
            /\ ~last'.ok => Count(cmds, "copy_to_iram") = 1
       /\ Count(cmds, "copy_from_iram") = 1
       /\ Count(cmds, "custom_preexecution") = 1
       /\ Count(cmds, "launch_thread") <= 1

C11_BootOrder == [][C11_Step]_vars

\* A fresh Boot has polled a running unit, then a stopped one, and has
\* returned success.
C11_Witness ==
  /\ last.op = "Boot"
  /\ last.before[1].unit.debug_context = None
  /\ last.polled = <<eStateRunning, eStateStopped>>
  /\ last.ok

\* C12.  When a fresh Boot has returned success, instruction word 0 of the
\* unit holds what it held when Boot was called.
C12_Restored ==
  (/\ last.op = "Boot"
   /\ last.before[1].unit.debug_context = None
   /\ last.ok) =>
    unit.iram0 = last.before[1].unit.iram0

\* C14.  A Dpu on which nothing was called is not logically running.
\* PollStatus returns Invalid exactly when the unit is not logically running
\* at the call, and then issues no link transaction and changes nothing.
\* After a PollStatus that returned Stopped, Exited or Crashed and after a
\* StopThreads the unit is not logically running; the only call that leaves a
\* unit logically running that was not is a ResumeThreads with polling
\* allowed, and the polls a fresh Boot makes after its launch never return
\* Invalid.
C14_Step ==
  /\ last'.op = "PollStatus" =>
       /\ last'.state = eStateInvalid <=> ~dpu.dpu_is_running
       /\ ~dpu.dpu_is_running => (Cmds(last'.trace) = <<>> /\ dpu' = dpu)
  /\ (\/ last'.op = "StopThreads"
      \/ /\ last'.op = "PollStatus"
         /\ last'.state \in {eStateStopped, eStateExited, eStateCrashed}) =>
       ~dpu'.dpu_is_running
  /\ (~dpu.dpu_is_running /\ dpu'.dpu_is_running) =>
       (last'.op = "ResumeThreads" /\ last'.flag)
  /\ last'.op = "Boot" =>
       \A i \in 1 .. Len(last'.polled) : last'.polled[i] # eStateInvalid

C14_InvalidWhenNotRunning == ~dpu.dpu_is_running /\ [][C14_Step]_vars

\* A PollStatus on a unit that is not logically running has returned Invalid
\* without a link transaction.
C14_Witness ==
  /\ last.op = "PollStatus"
  /\ last.state = eStateInvalid
  /\ Cmds(last.trace) = <<>>
  /\ ~dpu.dpu_is_running

\* C15.  A Boot of a unit that carries a saved context makes that context
\* the Dpu's m_context, returns success, issues no link transaction (no read
\* or write of instruction memory, no pre-execution command, no launch, no
\* poll), leaves instruction word 0 as it was and leaves the
\* logically-running flag and the dirty bit as they were.
C15_Step ==
  IsCoreBoot =>
    /\ dpu'.m_context = unit.debug_context[1]
    /\ last'.ok
    /\ last'.trace = <<>>
    /\ last'.written = <<>> /\ last'.polled = <<>>
    /\ unit'.iram0 = unit.iram0
    /\ dpu'.dpu_is_running = dpu.dpu_is_running
    /\ dpu'.registers_has_been_modified = dpu.registers_has_been_modified

C15_AdoptsCoreContext == [][C15_Step]_vars

\* A Boot has replaced the context of a Dpu by the different context its
\* unit carried, on a unit that was not logically running.
C15_Witness ==
  /\ last.op = "Boot"
  /\ last.before[1].unit.debug_context # None
  /\ last.before[1].unit.debug_context[1] # last.before[1].dpu.m_context
  /\ dpu.m_context = last.before[1].unit.debug_context[1]
  /\ last.ok /\ last.trace = <<>>
  /\ ~dpu.dpu_is_running

\* C21.  A fresh Boot that returns failure after its write of the breakpoint
\* opcode succeeded (the pre-execution command failed, the launch failed, or
\* the first poll result other than Running was not Stopped) has issued no
\* other write of instruction word 0: the word holds 0x00007E6320000000 when
\* Boot returns.
C21_Step ==
  LET e == last'.env[1]
      cmds == Cmds(last'.trace)
  IN (IsFreshBoot /\ ~last'.ok /\ e.ok_write) =>
       /\ unit'.iram0 = BreakpointInstruction
       /\ last'.written = <<BreakpointInstruction>>
       /\ Count(cmds, "copy_to_iram") = 1
       /\ \/ ~e.ok_pre
          \/ ~e.ok_launch
          \/ /\ last'.polled # <<>>
             /\ last'.polled[Len(last'.polled)]
                  \in {eStateExited, eStateCrashed, eStateInvalid}

C21_BreakpointLeft == [][C21_Step]_vars

\* A fresh Boot of a unit whose first instruction was not the breakpoint
\* opcode has polled an exited unit and returned failure, and word 0 holds
\* the breakpoint opcode.
C21_Witness ==
  /\ last.op = "Boot"
  /\ last.before[1].unit.debug_context = None
  /\ last.before[1].unit.iram0 # BreakpointInstruction
  /\ last.env[1].ok_write
  /\ ~last.ok
  /\ last.polled # <<>>
  /\ last.polled[Len(last.polled)] = eStateExited
  /\ unit.iram0 = BreakpointInstruction

\* ------------------------------------------ further claims checked on Spec
\* C13.  PollStatus on a logically running unit issues one link poll.  When
\* the poll reports a fault (running or not), it then does the forced stop
\* (every scheduling byte 0xFF, count 0 and the fault flags clear handed to
\* the initialize and the extract call) and returns Stopped; when the poll
\* reports no fault and not running, it does the forced stop and returns
\* Exited; in both cases the exit status is registers[r0] of the context as
\* extracted, and the result is Crashed instead when a vendor call of the
\* forced stop fails.  When the poll reports running and no fault it returns
\* Running, issues no other transaction and leaves the context as it was.
C13_Step ==
  LET cmds == Cmds(last'.trace)
      all_reset == [scheduling |-> [t \in Threads |-> Unscheduled],
                    nr_of_running_threads |-> 0, bkp_fault |-> FALSE,
                    dma_fault |-> FALSE, mem_fault |-> FALSE]
      forced == /\ cmds = <<"poll_dpu", "initialize_fault_process",
                            "extract_context">>
                /\ last'.handed = Some(all_reset)
                /\ ~dpu'.dpu_is_running
      status == Some(dpu'.m_context.registers[0])
  IN (last'.op = "PollStatus" /\ dpu.dpu_is_running) =>
       /\ Count(cmds, "poll_dpu") = 1 /\ cmds[1] = "poll_dpu"
       /\ last'.hw_fault =>
            /\ forced
            /\ last'.hw_ok => (last'.state = eStateStopped
                                 /\ last'.exit_status = status)
            /\ ~last'.hw_ok => last'.state = eStateCrashed
       /\ (~last'.hw_fault /\ ~last'.hw_running) =>
            /\ forced
            /\ last'.hw_ok => (last'.state = eStateExited
                                 /\ last'.exit_status = status)
            /\ ~last'.hw_ok => last'.state = eStateCrashed
       /\ (~last'.hw_fault /\ last'.hw_running) =>
            /\ last'.state = eStateRunning
            /\ cmds = <<"poll_dpu">>
            /\ dpu' = dpu

C13_Poll == [][C13_Step]_vars

\* A PollStatus whose poll reported a fault on a unit that is not running has
\* done the forced stop and returned Stopped, with the exit status.
C13_Witness ==
  /\ last.op = "PollStatus"
  /\ last.hw_fault /\ ~last.hw_running
  /\ last.state = eStateStopped
  /\ last.handed # None
  /\ last.exit_status = Some(dpu.m_context.registers[0])
  /\ ~dpu.dpu_is_running

\* C16.  A ResumeThreads that returns failure, or that is called with polling
\* not allowed, leaves the logically-running flag as it was; one that returns
\* success with polling allowed leaves the unit logically running.
C16_Step ==
  IsResume =>
    /\ (~last'.ok \/ ~last'.flag) =>
         dpu'.dpu_is_running = dpu.dpu_is_running
    /\ (last'.ok /\ last'.flag) => dpu'.dpu_is_running

C16_RunningOnlyOnSuccess == [][C16_Step]_vars

\* C17.  StepThread for a scheduled thread, with neither a DMA nor a memory
\* fault in the context, issues the restore call (with the registers of the
\* in-memory context) when the dirty bit is set, then the step call, then
\* the extract call, and no other; it returns Crashed when one of them
\* failed, else Exited with registers[r0] of the extracted context as exit
\* status when the extracted running-thread count is 0, else Stopped.  No
\* StepThread changes the logically-running flag.
C17_Step ==
  LET c == dpu.m_context
      dirty == dpu.registers_has_been_modified
      after == dpu'.m_context
  IN /\ IsStep => dpu'.dpu_is_running = dpu.dpu_is_running
     /\ (/\ IsStep
         /\ c.scheduling[last'.thread] # Unscheduled
         /\ ~c.dma_fault /\ ~c.mem_fault) =>
          /\ dirty =>
               /\ Cmds(last'.trace)
                    = <<"restore_context", "execute_thread_step_in_fault",
                        "extract_context">>
               /\ last'.pushed = Some(c.registers)
          /\ ~dirty =>
               /\ Cmds(last'.trace)
                    = <<"execute_thread_step_in_fault", "extract_context">>
               /\ last'.pushed = None
          /\ ~last'.hw_ok => last'.state = eStateCrashed
          /\ (last'.hw_ok /\ after.nr_of_running_threads = 0) =>
               /\ last'.state = eStateExited
               /\ last'.exit_status = Some(after.registers[0])
          /\ (last'.hw_ok /\ after.nr_of_running_threads # 0) =>
               last'.state = eStateStopped

C17_StepOrder == [][C17_Step]_vars

\* A StepThread has pushed the context, stepped, extracted a context with no
\* running thread and returned Exited with the exit status.
C17_Witness ==
  /\ last.op = "StepThread"
  /\ Cmds(last.trace) = <<"restore_context", "execute_thread_step_in_fault",
                          "extract_context">>
  /\ last.pushed # None
  /\ last.state = eStateExited
  /\ dpu.m_context.nr_of_running_threads = 0
  /\ last.exit_status = Some(dpu.m_context.registers[0])

\* ------------------------------------------- SpecCache: the cached chain
\* The unwinder of a thread whose registers, memory and register context
\* change between the calls.  Three memory images: a chain 200 -> 150 -> 100,
\* a chain 200 -> 100 with 150 a last frame, and every frame a last one.
CacheImages ==
  {[a \in MemAddrs |->
      IF a + 4 \in FrameAddrs THEN Word(next[a + 4]) ELSE Word(5)] :
     next \in {[f \in FrameAddrs |-> 3513],
               [f \in FrameAddrs |-> IF f = 200 THEN 150
                                     ELSE IF f = 150 THEN 100 ELSE 3513],
               [f \in FrameAddrs |-> IF f = 200 THEN 100 ELSE 3513]}}

CacheThreads ==
  [r22 : {100, 200}, pc : {0, 64}, memory : CacheImages, reg_ctx : {1, 2}]

InitCache ==
  /\ m_thread \in CacheThreads
  /\ unwind = NoUnwind
  /\ dpu = IdleDpu /\ unit = InitUnit /\ last = NoCall
  /\ rank = NoRank /\ callers = NoCallers

\* DoGetFrameInfoAtIndex or DoCreateRegisterContextForFrame with no frame
\* cached: its call of DoGetFrameCount walks.
WalkBeginAtIndex ==
  \E op \in {"DoGetFrameInfoAtIndex", "DoCreateRegisterContextForFrame"},
     frame_idx \in 0 .. MaxFrames :
    /\ ~unwind.walking
    /\ ~IsCached(unwind)
    /\ unwind' = FirstFrame(unwind, m_thread, op, frame_idx)
    /\ UNCHANGED <<dpuVars, rankVars, m_thread>>

\* UnwindDPU::DoCreateRegisterContextForFrame with frames cached.
DoCreateRegisterContextForFrame ==
  \E frame_idx \in 0 .. MaxFrames :
    /\ ~unwind.walking
    /\ IsCached(unwind)
    /\ unwind' = CreateRegisterContextForFrame(
                    [unwind EXCEPT !.op = "DoCreateRegisterContextForFrame",
                                   !.idx = frame_idx], frame_idx)
    /\ UNCHANGED <<dpuVars, rankVars, m_thread>>

\* Between two calls the thread's registers, its memory or its register
\* context change.
ThreadChanges ==
  /\ ~unwind.walking
  /\ m_thread' \in CacheThreads \ {m_thread}
  /\ UNCHANGED <<dpuVars, rankVars, unwind>>

NextCache ==
  \/ FrameCountCached
  \/ WalkBegin
  \/ WalkBeginAtIndex
  \/ WalkStep
  \/ DoClear
  \/ DoGetFrameInfoAtIndex
  \/ DoCreateRegisterContextForFrame
  \/ ThreadChanges

SpecCache == InitCache /\ [][NextCache]_vars

\* ---------------------------------------------- claims checked on SpecCache
\* The frame count, the frame information and the register context a call
\* with index idx returns from the chain frames.
InfoOf(frames, idx) ==
  IF idx >= Len(frames) THEN None
  ELSE Some([cfa |-> frames[idx + 1].cfa,
             start_pc |-> frames[idx + 1].start_pc])

\* C18.  With frames cached, DoGetFrameCount, DoGetFrameInfoAtIndex and
\* DoCreateRegisterContextForFrame read no register and no memory: they
\* leave the chain as it is and answer from it, whatever the thread's
\* registers and memory hold by then.  A walk begins only with no frame
\* cached, from the thread's r22, pc and register context as they are then,
\* and at most one walk begins between two DoClear; DoClear empties the
\* chain.  The call that walked answers from the chain the walk built.
\* DoGetFrameInfoAtIndex reports not found, and
\* DoCreateRegisterContextForFrame no register context, exactly for an index
\* at or above the frame count, and every frame of the chain carries the
\* register context the thread had when the walk began.
C18_Step ==
  LET frames == unwind.m_frames
      after == unwind'.m_frames
      cached == ~unwind.walking /\ frames # <<>>
      called == unwind' # unwind /\ unwind'.op # "DoClear"
      answered == called /\ ~unwind'.walking
      n == Len(after)
  IN /\ unwind'.walks <= 1
     /\ (cached /\ called) =>
          /\ after = frames
          /\ ~unwind'.walking
          /\ unwind'.walks = unwind.walks
     /\ (~unwind.walking /\ unwind'.walking) =>
          /\ frames = <<>>
          /\ after = <<[cfa |-> UInt32(m_thread.r22),
                        start_pc |-> UInt32(m_thread.pc),
                        reg_ctx_sp |-> Some(m_thread.reg_ctx)]>>
     /\ (unwind' # unwind /\ unwind'.op = "DoClear") =>
          (after = <<>> /\ unwind'.walks = 0)
     /\ (answered /\ unwind'.op = "DoGetFrameCount") => unwind'.ret = n
     /\ (answered /\ unwind'.op = "DoGetFrameInfoAtIndex") =>
          /\ unwind'.found <=> unwind'.idx < n
          /\ unwind'.frame = InfoOf(after, unwind'.idx)
     /\ (answered /\ unwind'.op = "DoCreateRegisterContextForFrame") =>
          /\ unwind'.reg_ctx = None <=> unwind'.idx >= n
          /\ unwind'.idx < n =>
               unwind'.reg_ctx = after[unwind'.idx + 1].reg_ctx_sp
     /\ \A k \in 1 .. n :
          /\ after[k].reg_ctx_sp # None
          /\ after[k].reg_ctx_sp = after[1].reg_ctx_sp

C18_Cached == [][C18_Step]_vars

\* DoCreateRegisterContextForFrame has answered from a cached chain of two
\* frames that is no longer the chain of the thread: r22 and the register
\* context have changed since the walk.
C18_Witness ==
  /\ ~unwind.walking
  /\ unwind.op = "DoCreateRegisterContextForFrame"
  /\ unwind.walks = 1
  /\ Len(unwind.m_frames) = 2
  /\ unwind.idx = 1
  /\ unwind.reg_ctx = unwind.m_frames[2].reg_ctx_sp
  /\ unwind.reg_ctx # Some(m_thread.reg_ctx)
  /\ unwind.m_frames[1].cfa # UInt32(m_thread.r22)

\* C19.  A ResumeThreads or a StepThread made with a DMA or a memory fault
\* in the context issues no link transaction and changes nothing in the Dpu
\* but bkp_fault, which it clears: the other fault flags, the fault thread
\* indexes, the registers, the pcs, the scheduling bytes, the running-thread
\* count, the dirty bit and the logically-running flag are as before.  When
\* it was a DMA fault, GetThreadState then reports the thread of the DMA
\* fault Crashed with "dma fault", also when it had a breakpoint fault too.
C19_Step ==
  LET c == dpu.m_context
      state == [stepping \in BOOLEAN |->
                  GetThreadState(dpu'.m_context, c.dma_fault_thread_index,
                                 stepping)]
  IN ((IsResume \/ IsStep) /\ (c.dma_fault \/ c.mem_fault)) =>
       /\ Cmds(last'.trace) = <<>>
       /\ dpu' = [dpu EXCEPT !.m_context.bkp_fault = FALSE]
       /\ c.dma_fault =>
            \A stepping \in BOOLEAN :
              /\ state[stepping].state = eStateCrashed
              /\ state[stepping].description = Some("dma fault")

C19_RefusedChangesNothing == [][C19_Step]_vars

\* A ResumeThreads made with a breakpoint fault and a DMA fault in the
\* context of a running unit with the dirty bit set has been refused: the
\* breakpoint fault is gone, the rest is there.
C19_Witness ==
  /\ last.op = "ResumeThreads"
  /\ last.bkp_pending
  /\ ~last.ok
  /\ Cmds(last.trace) = <<>>
  /\ ~dpu.m_context.bkp_fault
  /\ dpu.m_context.dma_fault
  /\ dpu.registers_has_been_modified
  /\ GetThreadState(dpu.m_context, 0, FALSE).state = eStateCrashed

\* C20.  When a ResumeThreads issues its finalize call, or a StepThread its
\* step call, the dirty bit is clear afterwards.  When the push of a dirty
\* context fails, the bit is cleared all the same, the finalize or the step
\* call is still issued after the push, and ResumeThreads returns failure,
\* StepThread Crashed.  A ResumeThreads or a StepThread pushes only when the
\* dirty bit is set at the call, and no call but a store through
\* ThreadRegistersHasBeenModified sets the bit.
C20_Step ==
  LET cmds == Cmds(last'.trace)
      dirty == dpu.registers_has_been_modified
      issued == \E i \in 1 .. Len(cmds) :
                  cmds[i] \in {"finalize_fault_process",
                               "execute_thread_step_in_fault"}
      pushes == Count(cmds, "restore_context")
  IN /\ ((IsResume \/ IsStep) /\ issued) =>
          /\ ~dpu'.registers_has_been_modified
          /\ pushes = (IF dirty THEN 1 ELSE 0)
          /\ dirty => cmds[1] = "restore_context"
          /\ (dirty /\ ~last'.ok_restore) =>
               /\ IsResume => ~last'.ok
               /\ IsStep => last'.state = eStateCrashed
     /\ ((IsResume \/ IsStep) /\ ~issued) => pushes = 0
     /\ (~dirty /\ dpu'.registers_has_been_modified) =>
          (last'.op = "ThreadRegistersHasBeenModified" /\ last'.flag)

C20_DirtyCleared == [][C20_Step]_vars

\* A ResumeThreads whose push failed has issued the finalize call, returned
\* failure and left the dirty bit clear.
C20_Witness ==
  /\ last.op = "ResumeThreads"
  /\ ~last.ok_restore
  /\ Cmds(last.trace) = <<"restore_context", "finalize_fault_process">>
  /\ ~last.ok
  /\ ~dpu.registers_has_been_modified

====
